---- MODULE Spec2Model ----
(***************************************************************************)
(* A model of SupaSocket (src/src/index.ts): the connection lifecycle      *)
(* engine, its timers, its outbound queue and its event bus.               *)
(*                                                                         *)
(* Every method of the class is an operator from an engine record to an    *)
(* engine record, so that a handler that calls other methods (and the      *)
(* observers those call back) is one atomic step, as it is on the          *)
(* JavaScript event loop.  The record's fields carry the names of the      *)
(* class's fields.  The transport (WebSocket) is the environment: each     *)
(* socket the engine created has a readyState and delivers open, message,  *)
(* error and close events to the handlers connect() installed.  All the    *)
(* handlers are closures over `this`, never over the socket they were      *)
(* installed on, so a socket the engine no longer refers to still drives   *)
(* the same handlers.  The engine reads the readyState of this.ws alone,   *)
(* so the model keeps that one (ws) and, of the sockets this.ws no longer  *)
(* refers to, how many are in each phase (stale).  The WebSocket class is  *)
(* the runtime's, a browser's or Node.js's; where the two deliver the      *)
(* events of a socket differently the model follows the runtime the        *)
(* engine was started on (platform).                                       *)
(***************************************************************************)
EXTENDS Integers, Sequences, FiniteSets, TLC

\* ---------------------------------------------------------------- bounds
\* sockets that may be alive (close event not yet delivered) at one time
MaxSockets == 2
\* length of the outbound queue
MaxQueue == 2
\* reconnect-delay timers pending at one time
MaxTimers == 2
\* calls the owner makes after construction
MaxCalls == 2
\* size of the files the owner sends, in units of 32 KB
MaxFileSize == 2

\* --------------------------------------------------- program constants
\* `reconnectLimit || 5`
DefaultReconnectLimit == 5
\* `reconnectInterval || 5000` and `maxReconnectDelay || 30000`, in units of
\* 1000 ms
DefaultReconnectInterval == 5
DefaultMaxReconnectDelay == 30
\* `options?.chunkSize || 64 * 1024`, in units of 32 KB
DefaultChunkSize == 2

VARIABLES
    state,                  \* connectionManager._state
    ws,                     \* this.ws: "NULL", else the readyState of that socket
    stale,                  \* sockets this.ws no longer refers to, per readyState
    reconnectCount,         \* this.reconnectCount
    currentBackoff,         \* this.currentBackoff
    heartbeatTimer,         \* time left to the next interval tick, -1: null
    heartbeatPeriod,        \* the period the running interval was armed with
    heartbeatTimeoutTimer,  \* time left to the heartbeat timeout, -1: not armed
    connectionTimeoutTimer, \* TRUE: the connection-timeout timer is armed
    reconnectTimers,        \* number of pending setTimeout(() => connect())
    messageQueue,           \* this.messageQueue
    explicitClose,          \* this.explicitClose
    options,                \* this.options
    lastDelay,              \* delay of the latest performReconnect, <<0,1>> after a reset
    pingAge,                \* time since the oldest unanswered ping, -1: none
    calls,                  \* number of calls the owner has made
    ownerClosed,            \* the owner called close() and has not called reconnect() since
    attempts,               \* connect() calls since the reconnect context was last reset
    failedOnce,             \* reconnectFailed was published since that reset
    destroyed,              \* the owner called destroy() and has made no call since
    sendFileChunks,         \* the pending sendFile calls, by chunks still to send and onProgress
    platform,               \* the runtime whose WebSocket the engine uses
    events,                 \* eventBus.events: the callbacks registered for each event
    hits,                   \* how often each onceCallback wrapper has run
    invoked,                \* the functions the last publish called, in order
    step                    \* what the last step did: op, arg, ret, emitted, wire, notified

vars == <<state, ws, stale, reconnectCount, currentBackoff, heartbeatTimer,
          heartbeatPeriod, heartbeatTimeoutTimer, connectionTimeoutTimer,
          reconnectTimers, messageQueue, explicitClose, options, lastDelay,
          pingAge, calls, ownerClosed, attempts, failedOnce, destroyed,
          sendFileChunks, platform, events, hits, invoked,
          step>>

\* enum ConnectionState
ConnectionState == {"CONNECTING", "OPEN", "CLOSING", "CLOSED", "RECONNECTING"}

\* WebSocket.readyState
ReadyState == {"CONNECTING", "OPEN", "CLOSING", "CLOSED"}

\* The runtimes.  "whatwg": a browser, which delivers the error and the
\* close event of a failed connection in one task, readyState CLOSED, and
\* runs the owner's promise callbacks between the two.  "node": Node.js 20,
\* whose WebSocket (undici 6) dispatches 'error' inside close() when the
\* socket is connecting, reports a failed handshake by 'error' alone with
\* readyState still CONNECTING, and delivers the error and the close event
\* of an established connection in different turns of the event loop, the
\* readyState being CLOSING from the error handler's return to the close
\* event.
Platforms == {"whatwg", "node"}

\* The phases of a socket: its readyState, and
\*   "ERRORED"  readyState CLOSED, error delivered, close event to come;
\*   "FAILED"   (node) handshake failed: readyState CONNECTING, no event
\*              to come;
\*   "ABORTED"  (node) closed while connecting: readyState CLOSING, at most
\*              a late error event to come;
\*   "FAILING"  (node) error delivered by an established connection:
\*              readyState CLOSING, close event to come.
\* "CLOSED" is a socket with nothing to come.
ReadyStateOf(phase) ==
    CASE phase = "FAILED" -> "CONNECTING"
      [] phase = "ERRORED" -> "CLOSED"
      [] phase = "ABORTED" -> "CLOSING"
      [] phase = "FAILING" -> "CLOSING"
      [] OTHER -> phase

\* a socket with an event still to come
Alive == {"CONNECTING", "OPEN", "CLOSING", "ERRORED", "ABORTED", "FAILING"}

\* payloads the owner sends; JSON.stringify throws on "cyclic" (an object
\* that refers to itself, a BigInt, a throwing toJSON)
UserMsgs == {"m1", "m2", "cyclic"}

\* prepareMessage returns
Serializes(data) == data # "cyclic"

\* ------------------------------------------------------------- helpers
Min(a, b) == IF a <= b THEN a ELSE b

RECURSIVE Pow(_, _)
Pow(b, e) == IF e = 0 THEN 1 ELSE b * Pow(b, e - 1)

\* rationals <<numerator, denominator>> with a positive denominator
RatLE(p, q) == p[1] * q[2] <= q[1] * p[2]
RatMin(p, q) == IF RatLE(p, q) THEN p ELSE q

\* eventBus.emit(ev, payload): the publish is recorded with the event name
\* and the fields of its payload.  Payloads of different shapes are records
\* with different field names: <a, b> for the payloads of strings,
\* <attempt, limit> for the counts of the reconnect events, <data> for a
\* decoded message, <queued, heartbeat> for what the engine had done when
\* it published open.
PublishRecord(s, rec) == [s EXCEPT !.emitted = Append(@, rec)]
Emit(s, ev, a, b) == PublishRecord(s, [ev |-> ev, a |-> a, b |-> b])
EmitAttempt(s, ev, attempt, limit) ==
    PublishRecord(s, [ev |-> ev, attempt |-> attempt, limit |-> limit])
EmitData(s, ev, data) == PublishRecord(s, [ev |-> ev, data |-> data])
EmitOpen(s) ==
    PublishRecord(s, [ev |-> "open", queued |-> Len(s.messageQueue),
                heartbeat |-> s.heartbeatTimer # -1])

\* this.ws = <null or a new socket>: the socket this.ws referred to lives on
\* until its close event
Assign(s, rs) ==
    [s EXCEPT !.ws = rs,
              !.stale = IF s.ws \in Alive
                        THEN [@ EXCEPT ![s.ws] = @ + 1] ELSE @]

\* --------------------------------------------------- session state

\* a setter without the early return: it notifies on every set (C8 fails
\* for it)
SameState_NoEarlyReturn(old, new) == FALSE

\* ConnectionManager's setter returns early when the state does not change
SameState(old, new) == old = new

\* SupaSocket.send: the three branches, the first with its catch.  Returns
\* the engine and the result.
Send(s, data) ==
    IF ReadyStateOf(s.ws) = "OPEN"
    THEN IF Serializes(data)
         THEN [s |-> [s EXCEPT !.wire = Append(@, data)], ret |-> TRUE]
         ELSE [s |-> Emit(s, "error", "sendError", data), ret |-> FALSE]
    ELSE IF s.state \in {"CONNECTING", "RECONNECTING"}
    THEN [s |-> [s EXCEPT !.messageQueue = Append(@, data)], ret |-> TRUE]
    ELSE [s |-> Emit(s, "error", "sendError", data), ret |-> FALSE]

\* The observer the constructor registers with the ConnectionManager: the
\* owner's onStatusChange, then the statusChange publish.  The owner's
\* callback is one of: absent ("none"), one that throws ("throw"), one that
\* sends a message when the session opens ("send").
StatusObserver(s, newState, oldState) ==
    IF s.options.onStatusChange = "throw"
    THEN s  \* the setter's try/catch swallows it; the publish is skipped
    ELSE LET s1 == IF s.options.onStatusChange = "send" /\ newState = "OPEN"
                   THEN Send(s, "obs").s ELSE s
         IN Emit(s1, "statusChange", newState, oldState)

\* ConnectionManager.state (setter)
SetState(s, newState) ==
    IF SameState(s.state, newState) THEN s
    ELSE LET oldState == s.state
             s1 == [s EXCEPT !.state = newState,
                             !.notified = Append(@, <<newState, oldState>>)]
         IN StatusObserver(s1, newState, oldState)

\* ------------------------------------------------------- heartbeat

\* SupaSocket.clearHeartbeatTimers
ClearHeartbeatTimers(s) ==
    [s EXCEPT !.heartbeatTimer = -1, !.heartbeatPeriod = 0,
              !.heartbeatTimeoutTimer = -1]

\* a resetHeartbeatTimeout that leaves the timeout armed (C6 fails for it)
ResetHeartbeatTimeout_KeepsTimer(s) == s

\* SupaSocket.resetHeartbeatTimeout
ResetHeartbeatTimeout(s) == [s EXCEPT !.heartbeatTimeoutTimer = -1]

\* SupaSocket.startHeartbeat: clear both timers, arm the interval
StartHeartbeat(s) ==
    LET s1 == ClearHeartbeatTimers(s)
    IN IF ~(s1.options.heartbeatInterval > 0) THEN s1
       ELSE [s1 EXCEPT !.heartbeatTimer = s1.options.heartbeatInterval,
                       !.heartbeatPeriod = s1.options.heartbeatInterval]

\* SupaSocket.startHeartbeatTimeout: clear the pending timeout, arm a new one
StartHeartbeatTimeout(s) ==
    LET s1 == [s EXCEPT !.heartbeatTimeoutTimer = -1]
    IN IF ~(s1.options.heartbeatTimeout > 0) THEN s1
       ELSE [s1 EXCEPT !.heartbeatTimeoutTimer = s1.options.heartbeatTimeout]

\* ---------------------------------------------------- reconnection

\* `reconnectLimit || 5`
EffectiveLimit(limit) == IF limit # 0 THEN limit ELSE DefaultReconnectLimit

\* performReconnect's delay, an exact rational: reconnectInterval at
\* exponent 0, else min(maxReconnectDelay, reconnectInterval * 1.5^exponent)
ReconnectDelay(reconnectInterval, maxReconnectDelay, backoff) ==
    LET base == IF reconnectInterval # 0 THEN reconnectInterval
                ELSE DefaultReconnectInterval
        cap == IF maxReconnectDelay # 0 THEN maxReconnectDelay
               ELSE DefaultMaxReconnectDelay
    IN IF backoff > 0
       THEN RatMin(<<cap, 1>>, <<base * Pow(3, backoff), Pow(2, backoff)>>)
       ELSE <<base, 1>>

\* SupaSocket.performReconnect
PerformReconnect(s) ==
    IF s.reconnectCount >= EffectiveLimit(s.options.reconnectLimit)
    THEN EmitAttempt(s, "reconnectFailed", s.reconnectCount,
                     s.options.reconnectLimit)
    ELSE LET s1 == SetState(s, "RECONNECTING")
             s2 == [s1 EXCEPT !.reconnectCount = @ + 1]
             delay == ReconnectDelay(s2.options.reconnectInterval,
                                     s2.options.maxReconnectDelay,
                                     s2.currentBackoff)
             s3 == [s2 EXCEPT !.currentBackoff = @ + 1, !.lastDelay = delay]
             s4 == EmitAttempt(s3, "reconnecting", s3.reconnectCount,
                               s3.options.reconnectLimit)
         IN [s4 EXCEPT !.reconnectTimers = @ + 1]

\* SupaSocket.handleConnectionFailure
HandleConnectionFailure(s) ==
    LET s1 == Assign(s, "NULL")
    IN IF s1.options.autoReconnect THEN PerformReconnect(s1)
       ELSE SetState(s1, "CLOSED")

\* ------------------------------------------------------- transport

\* the number of sockets with an event still to come
AliveCount(s) ==
    s.stale["CONNECTING"] + s.stale["OPEN"] + s.stale["CLOSING"]
        + s.stale["ERRORED"] + s.stale["ABORTED"] + s.stale["FAILING"]
        + (IF s.ws \in Alive THEN 1 ELSE 0)

\* new WebSocket(url) throws on a malformed url
ConstructorThrows(url) == url = "bad"

\* SupaSocket.connect, without the handlers it installs
Connect(s) ==
    LET s1 == [s EXCEPT !.connectionTimeoutTimer = FALSE]
        s2 == SetState(s1, "CONNECTING")
        s3 == [s2 EXCEPT !.explicitClose = FALSE]
    IN IF ConstructorThrows(s3.options.url)
       THEN LET s4 == SetState(s3, "CLOSED")
                s5 == Emit(s4, "error", "initError", "")
            IN IF s5.options.autoReconnect THEN PerformReconnect(s5) ELSE s5
       ELSE LET s4 == Assign(s3, "CONNECTING")
            IN IF s4.options.connectionTimeout > 0
               THEN [s4 EXCEPT !.connectionTimeoutTimer = TRUE] ELSE s4

\* -------------------------------------------------------- messages

\* An inbound frame is [kind, obj]: a string holding the JSON text of an
\* object ("json"), the JSON text null ("null"), a string that is no JSON
\* ("text"), or binary data ("binary").  obj gives the object's value at each key, "undefined" where
\* the object has no such key.
Keys == {"type", "id"}
Vals == {"pong", "chat", "message", "undefined"}
NoKeys == [k \in Keys |-> "undefined"]
Obj(type, id) == [k \in Keys |-> IF k = "type" THEN type ELSE id]

\* options.pongMessage: [kind, obj], kind "object" for a structured
\* template whose own keys are those with a value, "none" otherwise
PongDefault == [kind |-> "object", obj |-> Obj("pong", "undefined")]

\* the onmessage handler's JSON.parse under autoParseMessage
Decode(autoParseMessage, raw) ==
    IF autoParseMessage /\ raw.kind = "json"
    THEN [kind |-> "object", obj |-> raw.obj]
    ELSE IF autoParseMessage /\ raw.kind = "null"
    THEN [kind |-> "nullvalue", obj |-> raw.obj]
    ELSE raw

\* SupaSocket.isPongMessage
IsPongMessage(data, pongMessage) ==
    IF data.kind \in {"text", "nullvalue"} THEN FALSE
    ELSE IF pongMessage.kind = "object"
    THEN \A k \in {x \in Keys : pongMessage.obj[x] # "undefined"} :
            data.obj[k] # "undefined" /\ data.obj[k] = pongMessage.obj[k]
    ELSE data.kind \in {"object", "json"} /\ data.obj["type"] = "pong"

\* isPongMessage throws a TypeError: the string parsed to null and the
\* template's first key is read from it
IsPongThrows(data, pongMessage) ==
    /\ data.kind = "null" /\ pongMessage.kind = "object"
    /\ \E k \in Keys : pongMessage.obj[k] # "undefined"

\* ws.onmessage
OnMessage(s, raw) ==
    LET data == Decode(s.options.autoParseMessage, raw)
    IN IF IsPongThrows(data, s.options.pongMessage)
       THEN Emit(s, "error", "messageError", "")
       ELSE IF IsPongMessage(data, s.options.pongMessage)
       THEN ResetHeartbeatTimeout(s)
       ELSE LET s1 == EmitData(s, "message", data)
            IN IF data.kind = "object" /\ data.obj["type"] # "undefined"
               THEN EmitData(s1, data.obj["type"], data) ELSE s1

\* ----------------------------------------------- transport handlers

RECURSIVE SendAll(_, _)
SendAll(s, q) == IF q = <<>> THEN s ELSE SendAll(Send(s, Head(q)).s, Tail(q))

\* SupaSocket.processMessageQueue
ProcessMessageQueue(s) ==
    IF Len(s.messageQueue) > 0
    THEN [SendAll(s, s.messageQueue) EXCEPT !.messageQueue = <<>>]
    ELSE s

\* the reconnect context after a reset
ResetContext(s) ==
    [s EXCEPT !.reconnectCount = 0, !.currentBackoff = 0, !.lastDelay = <<0, 1>>]

\* an open handler that publishes 'open' before it drains the queue and
\* starts the heartbeat (C18 fails for it)
OnOpen_PublishFirst(s) ==
    LET s1 == [s EXCEPT !.connectionTimeoutTimer = FALSE]
        s2 == SetState(s1, "OPEN")
        s3 == ResetContext(s2)
        s4 == IF s3.options.onOpen = "throw" THEN s3
              ELSE EmitOpen(s3)
    IN StartHeartbeat(ProcessMessageQueue(s4))

\* ws.onopen
OnOpen(s) ==
    LET s1 == [s EXCEPT !.connectionTimeoutTimer = FALSE]
        s2 == SetState(s1, "OPEN")
        s3 == ResetContext(s2)
        s4 == ProcessMessageQueue(s3)
        s5 == StartHeartbeat(s4)
    IN IF s5.options.onOpen = "throw" THEN s5
       ELSE EmitOpen(s5)

\* ws.onclose
OnClose(s) ==
    LET s1 == [s EXCEPT !.connectionTimeoutTimer = FALSE]
        s2 == SetState(s1, "CLOSED")
        s3 == ClearHeartbeatTimers(s2)
    IN IF s3.options.onClose = "throw" THEN s3
       ELSE LET s4 == Emit(s3, "close", "", "")
            IN IF ~s4.explicitClose /\ s4.options.autoReconnect
               THEN PerformReconnect(s4) ELSE s4

\* ws.onerror
OnError(s) ==
    IF s.options.onError = "throw" THEN s
    ELSE LET s1 == Emit(s, "error", "transport", "")
         IN IF ReadyStateOf(s1.ws) = "CONNECTING" /\ s1.options.retryOnError
            THEN HandleConnectionFailure(s1) ELSE s1

\* this.ws.close(), which does not throw: an open socket starts closing.
\* So does a connecting one; on node it first dispatches 'error', so that
\* ws.onerror runs inside the call with readyState CONNECTING, and the
\* socket, never established, will deliver no close event.
SocketClose(s) ==
    IF s.ws = "OPEN" THEN [s EXCEPT !.ws = "CLOSING"]
    ELSE IF ReadyStateOf(s.ws) # "CONNECTING" THEN s
    ELSE IF s.platform = "whatwg" THEN [s EXCEPT !.ws = "CLOSING"]
    ELSE LET s1 == OnError(s)
         IN IF s1.ws # "NULL"
            THEN [s1 EXCEPT !.ws = IF s.ws = "CONNECTING" THEN "ABORTED"
                                   ELSE "CLOSED"]
            ELSE IF s.ws = "CONNECTING"
            THEN [s1 EXCEPT !.stale = [@ EXCEPT !["CONNECTING"] = @ - 1,
                                                !["ABORTED"] = @ + 1]]
            ELSE s1

\* the connection-timeout timer's callback
OnConnectionTimeout(s) ==
    LET s1 == Emit(s, "connectionTimeout", "", "")
    IN IF ReadyStateOf(s1.ws) = "CONNECTING"
       THEN HandleConnectionFailure(SocketClose(s1)) ELSE s1

\* the heartbeat interval's callback
OnHeartbeatInterval(s) == StartHeartbeatTimeout(Send(s, "ping").s)

\* the heartbeat-timeout timer's callback
OnHeartbeatTimeout(s) ==
    LET s1 == Emit(s, "heartbeatTimeout", "", "")
        s2 == IF s1.ws # "NULL" THEN SocketClose(s1) ELSE s1
    IN IF s2.options.autoReconnect THEN PerformReconnect(s2) ELSE s2

\* ---------------------------------------------------- public methods

\* SupaSocket.close(code, reason).  ws.close(code, reason) throws for a
\* code other than 1000 and 3000-4999 (codeOk FALSE) and leaves the socket
\* as it was; close() catches it.
Close(s, codeOk) ==
    LET s1 == [s EXCEPT !.explicitClose = TRUE]
        s2 == IF s1.ws # "NULL"
              THEN LET a == SetState(s1, "CLOSING")
                       b == ClearHeartbeatTimers(a)
                   IN IF codeOk THEN SocketClose(b) ELSE b
              ELSE s1
    IN SetState(s2, "CLOSED")

\* a reconnect that resets the context whatever its argument (C4 fails for
\* it)
Reconnect_AlwaysResets(s, resetReconnectCount) ==
    LET s1 == IF s.ws # "NULL" THEN SocketClose(s) ELSE s
        s3 == [ResetContext(s1) EXCEPT !.explicitClose = FALSE]
    IN Connect(s3)

\* SupaSocket.reconnect
Reconnect(s, resetReconnectCount) ==
    LET s1 == IF s.ws # "NULL" THEN SocketClose(s) ELSE s
        s2 == IF resetReconnectCount THEN ResetContext(s1) ELSE s1
        s3 == [s2 EXCEPT !.explicitClose = FALSE]
    IN Connect(s3)

\* SupaSocket.checkConnection: the engine and the value returned
CheckConnection(s) ==
    LET st == s.state
    IN [s |-> IF st = "CLOSED" /\ ~s.explicitClose /\ s.options.autoReconnect
              THEN PerformReconnect(s) ELSE s,
        ret |-> st]

\* an updateOptions that merges the options and does nothing else (C14
\* fails for it)
UpdateOptions_MergeOnly(s, key, val) == [s EXCEPT !.options[key] = val]

\* SupaSocket.updateOptions with a url or a heartbeat interval, the one
\* the option has or another
UpdateOptions(s, key, val) ==
    LET oldUrl == s.options.url
        s1 == [s EXCEPT !.options[key] = val]
        s2 == IF oldUrl # s1.options.url /\ s1.state = "OPEN"
              THEN Reconnect(s1, TRUE) ELSE s1
    IN IF s2.state = "OPEN" /\ s2.heartbeatTimer # -1
       THEN StartHeartbeat(s2) ELSE s2

\* SupaSocket.disableAutoReconnect and SupaSocket.enableAutoReconnect
SetAutoReconnect(s, on) == [s EXCEPT !.options.autoReconnect = on]

\* what the owner passes as options.onProgress of sendFile
ProgressCallbacks == {"none", "throw"}

\* the turns of sendFile's loop: a chunk for every chunkSize bytes of the
\* file, `options?.chunkSize || 64 * 1024` each
Chunks(size, chunkSize) ==
    LET c == IF chunkSize # 0 THEN chunkSize ELSE DefaultChunkSize
    IN (size + c - 1) \div c

\* what a pending sendFile call has still to do: its chunks left and its
\* onProgress
PendingCalls == (1..MaxFileSize) \X ProgressCallbacks

\* no sendFile call is pending
NonePending == [c \in PendingCalls |-> 0]

\* SupaSocket.sendFile(file, {onProgress, chunkSize}), up to its first
\* `await chunk.arrayBuffer()`, or to its end when the file is empty or the
\* session is not Open.  Returns the engine and what the promise resolves
\* to, "" while the call is pending.
SendFile(s, size, chunkSize, onProgress) ==
    IF s.state # "OPEN"
    THEN [s |-> Emit(s, "error", "sendError", "file"), ret |-> "false"]
    ELSE LET s1 == Send(s, "file_start").s
             chunks == Chunks(size, chunkSize)
         IN IF chunks = 0
            THEN [s |-> Send(s1, "file_end").s, ret |-> "true"]
            ELSE [s |-> [s1 EXCEPT !.sendFileChunks[<<chunks, onProgress>>] = @ + 1],
                  ret |-> ""]

\* the pending sendFile call resumed when the promise of
\* `chunk.arrayBuffer()` is settled.  Rejected (the file could not be
\* read): the catch publishes fileSendError and nothing is sent.
\* Fulfilled with the data of the chunk: sendBinary, onProgress, the test
\* of isConnected, and after the last chunk file_end; a failed send, a
\* throwing onProgress and a session no longer Open end in the catch too.
SendFileResume(s, call, rejected) ==
    LET s0 == [s EXCEPT !.sendFileChunks[call] = @ - 1]
        r == Send(s0, "chunk")
        left == call[1] - 1
    IN IF rejected
       THEN [s |-> Emit(s0, "error", "fileSendError", "file"), ret |-> "false"]
       ELSE IF ~r.ret \/ call[2] = "throw" \/ r.s.state # "OPEN"
       THEN [s |-> Emit(r.s, "error", "fileSendError", "file"), ret |-> "false"]
       ELSE IF left = 0
       THEN [s |-> Send(r.s, "file_end").s, ret |-> "true"]
       ELSE [s |-> [r.s EXCEPT !.sendFileChunks[<<left, call[2]>>] = @ + 1],
             ret |-> ""]

\* events the owner subscribes to
EventNames == {"x", "y"}

\* SupaSocket.clearAllListeners: a new EventBus
ClearAllListeners(b) ==
    [b EXCEPT !.events = [e \in EventNames |-> <<>>]]

\* SupaSocket.destroy
Destroy(s) ==
    LET s1 == IF s.ws # "NULL" THEN Assign(SocketClose(s), "NULL") ELSE s
        s2 == ClearHeartbeatTimers(s1)
        s3 == [s2 EXCEPT !.connectionTimeoutTimer = FALSE]
        s4 == ClearAllListeners(s3)
        s5 == SetState(s4, "CLOSED")
    IN [s5 EXCEPT !.messageQueue = <<>>]

\* ---------------------------------------------------- the event bus

\* the owner's callbacks, by what they do when called: return, throw, or
\* make the engine publish the same event again (unless already inside
\* that publish)
Callbacks == {"plain", "throw", "emit"}

\* a registered function: the callback itself (wrapper 0) or the n-th
\* onceCallback wrapper that once() made around it
Registered(wrapper, cb) == [wrapper |-> wrapper, cb |-> cb]

\* EventBus.on; an event without an array is one with the empty sequence
EventBusOn(b, event, fn) ==
    [b EXCEPT !.events[event] = Append(@, fn)]

\* EventBus.off(event, callback): the array is replaced by a filtered copy
EventBusOff(b, event, fn) ==
    [b EXCEPT !.events[event] = SelectSeq(@, LAMBDA f : f # fn)]

\* EventBus.off(event)
EventBusOffAll(b, event) ==
    [b EXCEPT !.events[event] = <<>>]

RECURSIVE EventBusEmit(_, _, _)
RECURSIVE ForEach(_, _, _, _)
RECURSIVE Invoke(_, _, _, _)
RECURSIVE Callback(_, _, _, _)

\* the owner's callback runs: the bus afterwards and whether it threw
Callback(b, event, cb, depth) ==
    IF cb = "throw" THEN [b |-> b, threw |-> TRUE]
    ELSE IF cb = "emit" /\ depth = 0
    THEN [b |-> EventBusEmit(b, event, depth + 1), threw |-> FALSE]
    ELSE [b |-> b, threw |-> FALSE]

\* one callback(data) of emit's forEach.  A onceCallback calls the user's
\* callback and then this.off(event, onceCallback); an exception leaves
\* the wrapper before the off and is caught by emit
Invoke(b, event, fn, depth) ==
    LET b1 == [b EXCEPT !.invoked = Append(@, fn),
                        !.hits = IF fn.wrapper > 0
                                 THEN [@ EXCEPT ![fn.wrapper] = @ + 1] ELSE @]
        r == Callback(b1, event, fn.cb, depth)
    IN IF fn.wrapper > 0 /\ ~r.threw THEN EventBusOff(r.b, event, fn) ELSE r.b

\* a forEach that a throwing callback ends (C23 fails for it)
ForEach_StopsAtThrow(b, event, callbacks, depth) ==
    IF callbacks = <<>> THEN b
    ELSE IF Head(callbacks).cb = "throw"
    THEN Invoke(b, event, Head(callbacks), depth)
    ELSE ForEach(Invoke(b, event, Head(callbacks), depth), event,
                 Tail(callbacks), depth)

\* callbacks.forEach over the array emit read from the map
ForEach(b, event, callbacks, depth) ==
    IF callbacks = <<>> THEN b
    ELSE ForEach(Invoke(b, event, Head(callbacks), depth), event,
                 Tail(callbacks), depth)

\* EventBus.emit
EventBusEmit(b, event, depth) ==
    IF b.events[event] = <<>> THEN b
    ELSE ForEach(b, event, b.events[event], depth)

\* SupaSocket.once
Once(b, event, cb) ==
    LET onceCallback == Registered(Len(b.hits) + 1, cb)
    IN EventBusOn([b EXCEPT !.hits = Append(@, 0)], event, onceCallback)


\* ------------------------------------------------------ the machine

\* The options the engine is constructed with: the defaults of the
\* constructor scaled down.
BaseOptions ==
    [url |-> "a", reconnectLimit |-> 2, reconnectInterval |-> 2,
     maxReconnectDelay |-> 4, heartbeatInterval |-> 2, heartbeatTimeout |-> 1,
     autoReconnect |-> TRUE, retryOnError |-> TRUE, connectionTimeout |-> 1,
     autoParseMessage |-> TRUE, pongMessage |-> PongDefault,
     onStatusChange |-> "none", onOpen |-> "none", onClose |-> "none",
     onError |-> "none"]

\* the options the engine is run with in a browser: without heartbeat;
\* with heartbeat and one reconnect attempt; no limit given (the engine
\* then takes its default limit) and a reconnect interval above the delay
\* cap; an owner that sends from onStatusChange; a heartbeat timeout longer
\* than the interval; no retry on error; no automatic reconnect; a url the
\* WebSocket constructor rejects
Configs ==
    { [BaseOptions EXCEPT !.heartbeatInterval = 0],
      [BaseOptions EXCEPT !.reconnectLimit = 1, !.connectionTimeout = 0],
      [BaseOptions EXCEPT !.reconnectLimit = 0, !.heartbeatInterval = 0,
                          !.connectionTimeout = 0, !.reconnectInterval = 3,
                          !.maxReconnectDelay = 2],
      [BaseOptions EXCEPT !.onStatusChange = "send", !.heartbeatInterval = 0,
                          !.reconnectLimit = 1],
      [BaseOptions EXCEPT !.heartbeatInterval = 1, !.heartbeatTimeout = 2,
                          !.reconnectLimit = 1],
      [BaseOptions EXCEPT !.heartbeatInterval = 0, !.retryOnError = FALSE,
                          !.reconnectLimit = 1],
      [BaseOptions EXCEPT !.autoReconnect = FALSE, !.connectionTimeout = 0],
      [BaseOptions EXCEPT !.url = "bad", !.heartbeatInterval = 0] }

\* the options the engine is run with on node: without heartbeat, with and
\* without retryOnError
NodeConfigs ==
    { [BaseOptions EXCEPT !.heartbeatInterval = 0],
      [BaseOptions EXCEPT !.heartbeatInterval = 0, !.retryOnError = FALSE,
                          !.reconnectLimit = 1] }

\* the options with every callback throwing, and one reconnect attempt
ThrowAll ==
    [BaseOptions EXCEPT !.reconnectLimit = 1,
                        !.onStatusChange = "throw", !.onOpen = "throw",
                        !.onClose = "throw", !.onError = "throw"]

\* options whose callbacks throw
ThrowConfigs ==
    { ThrowAll,
      [BaseOptions EXCEPT !.onClose = "throw", !.autoReconnect = FALSE] }

\* frames the peer sends
Frames ==
    { [kind |-> "json", obj |-> Obj("pong", "undefined")],
      [kind |-> "json", obj |-> Obj("chat", "undefined")] }

\* what updateOptions is called with
OptionUpdates ==
    {<<"url", "a">>, <<"url", "b">>, <<"url", "bad">>, <<"heartbeatInterval", 1>>}

\* saturation of pingAge
MaxAge == 3

\* callbacks registered for one event, once() calls, and runs of one
\* onceCallback wrapper
MaxSubs == 2
MaxOnce == 2
MaxHits == 3

\* the engine as a record, with the logs of the step empty
Cur ==
    [state |-> state, ws |-> ws, stale |-> stale,
     reconnectCount |-> reconnectCount, currentBackoff |-> currentBackoff,
     heartbeatTimer |-> heartbeatTimer, heartbeatPeriod |-> heartbeatPeriod,
     heartbeatTimeoutTimer |-> heartbeatTimeoutTimer,
     connectionTimeoutTimer |-> connectionTimeoutTimer,
     reconnectTimers |-> reconnectTimers, messageQueue |-> messageQueue,
     explicitClose |-> explicitClose, options |-> options,
     lastDelay |-> lastDelay, pingAge |-> pingAge,
     sendFileChunks |-> sendFileChunks, platform |-> platform,
     events |-> events,
     emitted |-> <<>>, wire |-> <<>>, notified |-> <<>>]

\* the fields of a freshly allocated SupaSocket, before the constructor's
\* connect()
Fresh(opts, runtime) ==
    [state |-> "CLOSED", ws |-> "NULL", stale |-> [r \in Alive |-> 0],
     reconnectCount |-> 0, currentBackoff |-> 0,
     heartbeatTimer |-> -1, heartbeatPeriod |-> 0, heartbeatTimeoutTimer |-> -1,
     connectionTimeoutTimer |-> FALSE, reconnectTimers |-> 0,
     messageQueue |-> <<>>, explicitClose |-> FALSE, options |-> opts,
     lastDelay |-> <<0, 1>>, pingAge |-> -1,
     sendFileChunks |-> NonePending,
     platform |-> runtime,
     events |-> [e \in EventNames |-> <<>>],
     emitted |-> <<>>, wire |-> <<>>, notified |-> <<>>]

\* the step's log: the handler, its argument, the value it returned as text
\* ("" when it returns nothing), and what it published, sent and notified
Log(s, op, arg, ret) ==
    [op |-> op, arg |-> arg, ret |-> ret, emitted |-> s.emitted,
     wire |-> s.wire, notified |-> s.notified]

\* the owner's calls
OwnerOps == {"send", "close", "reconnect", "checkConnection", "updateOptions",
             "destroy", "sendFile", "enableAutoReconnect",
             "disableAutoReconnect"}

\* the handlers that reset the reconnect context: the open callback and
\* reconnect(true), which updateOptions calls when the url changes while
\* Open.  The transport that is open, or that reconnect(true) creates, is
\* the first attempt of the new context.
ResetsContext(op, arg) ==
    \/ op = "onopen"
    \/ op = "reconnect" /\ arg = TRUE
    \/ op = "updateOptions" /\ arg[1] = "url" /\ arg[2] # options.url
          /\ state = "OPEN"

\* the variables take the engine's fields (the record the handler leaves,
\* evaluated once); a step that would exceed a bound of the model is not
\* taken
Install(next, op, arg, ret) ==
    \E s \in {next} :
        /\ AliveCount(s) <= MaxSockets
        /\ Len(s.messageQueue) <= MaxQueue
        /\ s.reconnectTimers <= MaxTimers
        /\ state' = s.state
        /\ ws' = s.ws
        /\ stale' = s.stale
        /\ calls' = IF op \in OwnerOps THEN calls + 1 ELSE calls
        /\ calls' <= MaxCalls
        /\ ownerClosed' = IF op = "close" THEN TRUE
                          ELSE IF op = "reconnect" THEN FALSE
                          ELSE IF op = "updateOptions" /\ ResetsContext(op, arg)
                          THEN FALSE
                          ELSE ownerClosed
        /\ attempts' = IF ResetsContext(op, arg) THEN 1
                       ELSE IF op \in {"reconnect", "reconnectTimer"} THEN attempts + 1
                       ELSE attempts
        /\ failedOnce' = IF ResetsContext(op, arg) THEN FALSE
                         ELSE \/ failedOnce
                              \/ \E i \in 1..Len(s.emitted) :
                                    s.emitted[i].ev = "reconnectFailed"
        /\ destroyed' = IF op \in OwnerOps THEN op = "destroy" ELSE destroyed
        /\ sendFileChunks' = s.sendFileChunks
        /\ platform' = s.platform
        /\ events' = s.events
        /\ UNCHANGED <<hits, invoked>>
        /\ reconnectCount' = s.reconnectCount
        /\ currentBackoff' = s.currentBackoff
        /\ heartbeatTimer' = s.heartbeatTimer
        /\ heartbeatPeriod' = s.heartbeatPeriod
        /\ heartbeatTimeoutTimer' = s.heartbeatTimeoutTimer
        /\ connectionTimeoutTimer' = s.connectionTimeoutTimer
        /\ reconnectTimers' = s.reconnectTimers
        /\ messageQueue' = s.messageQueue
        /\ explicitClose' = s.explicitClose
        /\ options' = s.options
        /\ lastDelay' = s.lastDelay
        /\ pingAge' = IF s.state = "OPEN" THEN s.pingAge ELSE -1
        /\ step' = Log(s, op, arg, ret)

\* new SupaSocket(options) on a runtime: the constructor ends with connect()
InitWith(runs) ==
    \E run \in runs :
        LET opts == run[1]
            runtime == run[2]
            s == Connect(Fresh(opts, runtime))
        IN /\ state = s.state
           /\ ws = s.ws
           /\ stale = s.stale
           /\ reconnectCount = s.reconnectCount
           /\ currentBackoff = s.currentBackoff
           /\ heartbeatTimer = s.heartbeatTimer
           /\ heartbeatPeriod = s.heartbeatPeriod
           /\ heartbeatTimeoutTimer = s.heartbeatTimeoutTimer
           /\ connectionTimeoutTimer = s.connectionTimeoutTimer
           /\ reconnectTimers = s.reconnectTimers
           /\ messageQueue = s.messageQueue
           /\ explicitClose = s.explicitClose
           /\ options = s.options
           /\ lastDelay = s.lastDelay
           /\ pingAge = -1
           /\ calls = 0
           /\ ownerClosed = FALSE
           /\ attempts = 1
           /\ failedOnce = FALSE
           /\ destroyed = FALSE
           /\ sendFileChunks = NonePending
           /\ platform = runtime
           /\ events = s.events
           /\ hits = <<>>
           /\ invoked = <<>>
           /\ step = Log(s, "new", "", "")

\* ---- the transport's events: of the socket this.ws refers to ("cur") or
\* of one it no longer refers to ("stale")
Who == {"cur", "stale"}

\* whether such a socket is in phase rs
Has(who, rs) == IF who = "cur" THEN ws = rs ELSE stale[rs] > 0

\* that socket goes from phase rs to phase to; a stale socket with nothing
\* more to come is gone
Move(who, rs, to) ==
    IF who = "cur" THEN [Cur EXCEPT !.ws = to]
    ELSE [Cur EXCEPT !.stale =
            IF to \notin Alive THEN [@ EXCEPT ![rs] = @ - 1]
            ELSE [@ EXCEPT ![rs] = @ - 1, ![to] = @ + 1]]

\* a browser is inside the task that delivers the error and then the close
\* event of a socket: before the close event only the owner's promise
\* callbacks run
InTask == platform = "whatwg" /\ (ws = "ERRORED" \/ stale["ERRORED"] > 0)

TransportOpen ==
    \E who \in Who :
        /\ ~InTask
        /\ Has(who, "CONNECTING")
        /\ LET s == OnOpen(Move(who, "CONNECTING", "OPEN"))
           IN Install([s EXCEPT !.pingAge =
                          IF @ = -1 /\ \E i \in 1..Len(s.wire) : s.wire[i] = "ping"
                          THEN 0 ELSE @],
                      "onopen", who, "")

Receive(frames) ==
    \E who \in Who, f \in frames :
        /\ ~InTask
        /\ Has(who, "OPEN")
        /\ LET s == OnMessage(Cur, f)
           IN Install([s EXCEPT !.pingAge =
                          IF IsPongMessage(Decode(options.autoParseMessage, f),
                                           options.pongMessage)
                          THEN -1 ELSE @],
                      "onmessage", f, "")

TransportMessage == Receive(Frames)

\* the peer's close frame arrives at an open socket: the closing handshake
\* starts and the readyState becomes CLOSING; no event is delivered before
\* the connection ends
TransportClosing ==
    \E who \in Who :
        /\ ~InTask
        /\ Has(who, "OPEN")
        /\ Install(Move(who, "OPEN", "CLOSING"), "closing", who, "")

\* the close event of a socket: of one that closes cleanly, or of one whose
\* error event was delivered
TransportClose ==
    \E who \in Who, rs \in {"OPEN", "CLOSING", "ERRORED", "FAILING"} :
        /\ InTask => rs = "ERRORED"
        /\ Has(who, rs)
        /\ Install(OnClose(Move(who, rs, "CLOSED")), "onclose", who, "")

\* the phase in which the error event of a socket in phase rs leaves it: in
\* a browser a failed connection is CLOSED with its close event to come; on
\* node a failed handshake stays CONNECTING and is followed by nothing, an
\* established connection is CLOSING and is followed by its close event;
\* the late error of a socket closed while connecting is its last event
AfterError(runtime, rs) ==
    IF rs = "ABORTED" THEN "CLOSED"
    ELSE IF runtime = "whatwg" THEN "ERRORED"
    ELSE IF rs = "CONNECTING" THEN "FAILED"
    ELSE "FAILING"

\* the error event of a socket.  In a browser the close event that follows
\* is part of the same task.
TransportError ==
    \E who \in Who, rs \in {"CONNECTING", "OPEN", "CLOSING", "ABORTED"} :
        /\ ~InTask
        /\ Has(who, rs)
        /\ Install(OnError(Move(who, rs, AfterError(platform, rs))),
                   "onerror", who, rs)

\* ---- the timers
\* time passes: no armed heartbeat timer is due
Tick ==
    /\ ~InTask
    /\ heartbeatTimer > 0 \/ heartbeatTimeoutTimer > 0
    /\ heartbeatTimer # 0 /\ heartbeatTimeoutTimer # 0
    /\ Install([Cur EXCEPT
                  !.heartbeatTimer = IF @ > 0 THEN @ - 1 ELSE @,
                  !.heartbeatTimeoutTimer = IF @ > 0 THEN @ - 1 ELSE @,
                  !.pingAge = IF @ >= 0 THEN Min(@ + 1, MaxAge) ELSE @],
               "tick", "", "")

\* the interval is due; a timeout due at the same instant was armed first
\* and runs first.  setInterval re-arms itself with the period it was given.
HeartbeatFire ==
    /\ ~InTask
    /\ heartbeatTimer = 0 /\ heartbeatTimeoutTimer # 0
    /\ LET s == OnHeartbeatInterval(Cur)
           pinged == s.wire # <<>>
       IN Install([s EXCEPT !.heartbeatTimer = heartbeatPeriod,
                            !.pingAge = IF pinged /\ @ = -1 THEN 0 ELSE @],
                  "heartbeat", "", "")

HeartbeatTimeoutFire ==
    /\ ~InTask
    /\ heartbeatTimeoutTimer = 0
    /\ Install([OnHeartbeatTimeout([Cur EXCEPT !.heartbeatTimeoutTimer = -1])
                   EXCEPT !.pingAge = -1],
               "heartbeatTimeout", "", "")

ConnectionTimeoutFire ==
    /\ ~InTask
    /\ connectionTimeoutTimer
    /\ Install(OnConnectionTimeout([Cur EXCEPT !.connectionTimeoutTimer = FALSE]),
               "connectionTimeout", "", "")

\* a reconnect delay ends: connect()
ReconnectTimerFire ==
    /\ ~InTask
    /\ reconnectTimers > 0
    /\ Install(Connect([Cur EXCEPT !.reconnectTimers = @ - 1]),
               "reconnectTimer", "", "")

\* ---- the owner's calls
\* the owner has a call left to make
MayCall == calls < MaxCalls

DoSend ==
    /\ MayCall
    /\ \E m \in UserMsgs :
          LET r == Send(Cur, m)
          IN Install(r.s, "send", m, IF r.ret THEN "true" ELSE "false")

DoClose ==
    /\ MayCall
    /\ \E codeOk \in BOOLEAN :
          Install(Close(Cur, codeOk), "close", IF codeOk THEN "" ELSE "1001", "")

DoReconnect ==
    /\ MayCall
    /\ \E reset \in BOOLEAN :
          Install(Reconnect(Cur, reset), "reconnect", reset, "true")

DoCheckConnection ==
    /\ MayCall
    /\ LET r == CheckConnection(Cur)
       IN Install(r.s, "checkConnection", "", r.ret)

DoUpdateOptions ==
    /\ MayCall
    /\ \E u \in OptionUpdates :
          Install(UpdateOptions(Cur, u[1], u[2]), "updateOptions", u, "")

DoDestroy == MayCall /\ Install(Destroy(Cur), "destroy", "", "")

DoEnableAutoReconnect ==
    /\ MayCall
    /\ Install(SetAutoReconnect(Cur, TRUE), "enableAutoReconnect", "", "")

DoDisableAutoReconnect ==
    /\ MayCall
    /\ Install(SetAutoReconnect(Cur, FALSE), "disableAutoReconnect", "", "")

\* what sendFile is called with: the size of the file, options.chunkSize
\* (0: none given) and options.onProgress.  An empty file; files that fit
\* one chunk of the default size; a file of two chunks of the size given,
\* with an onProgress that returns and with one that throws
SendFileArgs ==
    { <<0, 0, "none">>,
      <<1, 0, "none">>,
      <<MaxFileSize, 0, "none">>,
      <<MaxFileSize, 1, "none">>, <<MaxFileSize, 1, "throw">> }

\* sendFile(file, options), also while earlier calls are pending
DoSendFile ==
    /\ MayCall
    /\ \E a \in SendFileArgs :
          LET r == SendFile(Cur, a[1], a[2], a[3])
          IN Install(r.s, "sendFile", a, r.ret)

\* the read of the next chunk of a pending sendFile call ends, with the
\* data or with an error, and the call goes on
SendFileChunk ==
    /\ ~InTask
    /\ \E call \in PendingCalls, rejected \in BOOLEAN :
          /\ sendFileChunks[call] > 0
          /\ LET r == SendFileResume(Cur, call, rejected)
             IN Install(r.s, "sendFileChunk", <<call, rejected>>, r.ret)

Next ==
    \/ TransportOpen
    \/ TransportMessage
    \/ TransportClosing
    \/ TransportClose
    \/ TransportError
    \/ Tick
    \/ HeartbeatFire
    \/ HeartbeatTimeoutFire
    \/ ConnectionTimeoutFire
    \/ ReconnectTimerFire
    \/ DoSend
    \/ DoClose
    \/ DoReconnect
    \/ DoCheckConnection
    \/ DoUpdateOptions
    \/ DoDestroy
    \/ DoEnableAutoReconnect
    \/ DoDisableAutoReconnect
    \/ DoSendFile
    \/ SendFileChunk

\* the engine in a browser
Init == InitWith(Configs \X {"whatwg"})

Spec == Init /\ [][Next]_vars

\* the engine on node
InitNode == InitWith(NodeConfigs \X {"node"})

SpecNode == InitNode /\ [][Next]_vars

\* the engine constructed with callbacks that throw
InitThrow ==
    InitWith((ThrowConfigs \X {"whatwg"})
                \cup {<<[ThrowAll EXCEPT !.heartbeatInterval = 0], "node">>})

SpecThrow == InitThrow /\ [][Next]_vars

\* ---- the reconnect loop under fair timers
\* The engine without heartbeat and without connection timeout: the
\* transport opens, closes and fails (inbound messages play no part), the
\* owner sends and closes, and a reconnect delay that is pending ends
\* (setTimeout runs its callback).
LiveOptions ==
    [BaseOptions EXCEPT !.heartbeatInterval = 0, !.connectionTimeout = 0]

LiveConfigs ==
    { LiveOptions,
      [LiveOptions EXCEPT !.reconnectLimit = 0],
      [LiveOptions EXCEPT !.autoReconnect = FALSE],
      [LiveOptions EXCEPT !.url = "bad"],
      [LiveOptions EXCEPT !.onStatusChange = "send"],
      [LiveOptions EXCEPT !.onClose = "throw"] }

InitLive == InitWith(LiveConfigs \X Platforms)

NextLive ==
    \/ TransportOpen
    \/ TransportClose
    \/ TransportError
    \/ ReconnectTimerFire
    \/ DoSend
    \/ DoClose

\* a browser completes the task it is in: the close event follows the error
TaskClose == InTask /\ TransportClose

\* setTimeout runs the callback of every delay performReconnect scheduled
\* (each callback is one more connect(), counted in attempts), and a
\* browser delivers the close event of the task it is in
SpecLive ==
    /\ InitLive /\ [][NextLive]_vars
    /\ WF_attempts(ReconnectTimerFire)
    /\ WF_<<ws, stale>>(TaskClose)

\* ---- inbound messages of every shape under every pong template
\* options.pongMessage: no structured template, or an object with at least
\* one key
Templates ==
    {[kind |-> "none", obj |-> NoKeys]}
        \cup {[kind |-> "object", obj |-> o] : o \in [Keys -> Vals] \ {NoKeys}}

\* event.data: the JSON text of each object, the JSON text null, a string
\* that is no JSON, binary data
AllFrames ==
    {[kind |-> "json", obj |-> o] : o \in [Keys -> Vals]}
        \cup {[kind |-> k, obj |-> NoKeys] : k \in {"null", "text", "binary"}}

MsgConfigs ==
    {[BaseOptions EXCEPT !.pongMessage = tpl, !.autoParseMessage = p] :
        tpl \in Templates, p \in BOOLEAN}

InitMsg == InitWith(MsgConfigs \X Platforms)

MessageArrives == Receive(AllFrames)

NextMsg ==
    \/ TransportOpen
    \/ MessageArrives

SpecMsg == InitMsg /\ [][NextMsg]_vars

\* ---- the owner's subscriptions and the engine's publishes

\* the variables of the engine proper
engine == <<state, ws, stale, reconnectCount, currentBackoff, heartbeatTimer,
            heartbeatPeriod, heartbeatTimeoutTimer, connectionTimeoutTimer,
            reconnectTimers, messageQueue, explicitClose, options, lastDelay,
            pingAge, calls, ownerClosed, attempts, failedOnce, destroyed,
            sendFileChunks, platform, step>>

\* the bus as a record, with the log of the step empty
CurBus == [events |-> events, hits |-> hits, invoked |-> <<>>]

InstallBus(b) ==
    /\ \A e \in EventNames : Len(b.events[e]) <= MaxSubs
    /\ Len(b.hits) <= MaxOnce
    /\ \A i \in 1..Len(b.hits) : b.hits[i] <= MaxHits
    /\ events' = b.events
    /\ hits' = b.hits
    /\ invoked' = b.invoked
    /\ UNCHANGED engine

\* socket.on(event, cb)
DoOn ==
    \E e \in EventNames, cb \in Callbacks :
        InstallBus(EventBusOn(CurBus, e, Registered(0, cb)))

\* socket.once(event, cb)
DoOnce ==
    \E e \in EventNames, cb \in Callbacks : InstallBus(Once(CurBus, e, cb))

\* socket.off(event, cb)
DoOff ==
    \E e \in EventNames, cb \in Callbacks :
        /\ events[e] # <<>>
        /\ InstallBus(EventBusOff(CurBus, e, Registered(0, cb)))

\* socket.off(event)
DoOffAll ==
    \E e \in EventNames :
        /\ events[e] # <<>>
        /\ InstallBus(EventBusOffAll(CurBus, e))

\* socket.clearAllListeners()
DoClearAllListeners ==
    /\ \E e \in EventNames : events[e] # <<>>
    /\ InstallBus(ClearAllListeners(CurBus))

\* the engine publishes an event
Publish ==
    \E e \in EventNames : InstallBus(EventBusEmit(CurBus, e, 0))

NextBus ==
    \/ DoOn
    \/ DoOnce
    \/ DoOff
    \/ DoOffAll
    \/ DoClearAllListeners
    \/ Publish

InitBus == InitWith({BaseOptions} \X Platforms)

SpecBus == InitBus /\ [][NextBus]_vars

\* ------------------------------------------------------- the claims

\* the events a step published under the name ev
Published(st, ev) == {i \in 1..Len(st.emitted) : st.emitted[i].ev = ev}

\* C1: after close() the session stays Closed, and so no connection is
\* attempted, until the owner calls reconnect().
C1_ClosedUntilReconnect == ownerClosed => state = "CLOSED"

\* C2: an automatic connection attempt (a reconnect delay ending) is never
\* numbered beyond the configured reconnectLimit, so that after
\* reconnectLimit failed attempts none follows.
C2_AttemptsWithinLimit ==
    [][step'.op = "reconnectTimer" => reconnectCount <= options.reconnectLimit]_vars

\* C3: the delays of consecutive performReconnect calls never decrease and
\* never exceed maxReconnectDelay.
C3_DelayMonotoneCapped ==
    [][currentBackoff' = currentBackoff + 1 =>
          /\ RatLE(lastDelay, lastDelay')
          /\ RatLE(lastDelay', <<options.maxReconnectDelay, 1>>)]_vars

\* a step in which the open callback ran or reconnect(true) was called
\* (updateOptions calls reconnect(true) when the url changes while Open)
ResetStep ==
    \/ step'.op = "onopen"
    \/ step'.op = "reconnect" /\ step'.arg = TRUE
    \/ step'.op = "updateOptions" /\ step'.arg[1] = "url"
          /\ step'.arg[2] # options.url /\ state = "OPEN"

\* C4: the attempt count and the backoff exponent go back to 0 in the open
\* callback and in reconnect(true), and in no other step do they decrease.
C4_ResetOnlyOnOpenOrReconnectTrue ==
    [][/\ ~ResetStep => /\ reconnectCount' >= reconnectCount
                        /\ currentBackoff' >= currentBackoff
       /\ step'.op = "onopen" => reconnectCount' = 0 /\ currentBackoff' = 0
       /\ ResetStep => reconnectCount' <= 1 /\ currentBackoff' = reconnectCount'
      ]_vars

\* the open callback has just reset a count that a performReconnect had
\* raised (its delay is still pending)
C4_Witness ==
    step.op = "onopen" /\ reconnectCount = 0 /\ reconnectTimers > 0

\* C5: when the session goes from Connecting to Open, the queued messages
\* are the first the transport is handed, in their order.
C5_QueueFirstFIFO ==
    [][(state = "CONNECTING" /\ step'.op = "onopen" /\ messageQueue # <<>>) =>
          /\ Len(step'.wire) >= Len(messageQueue)
          /\ SubSeq(step'.wire, 1, Len(messageQueue)) = messageQueue]_vars

\* an inbound frame has the configured pong shape: every key of the
\* template has the template's value in the frame
HasPongShape(f, pongMessage) ==
    \A k \in Keys : pongMessage.obj[k] # "undefined" => f.obj[k] = pongMessage.obj[k]

\* C6: a frame of the pong shape publishes nothing, leaves the heartbeat
\* timeout disarmed and the heartbeat interval as it was.
C6_PongSwallowed ==
    [][(step'.op = "onmessage" /\ HasPongShape(step'.arg, options.pongMessage)) =>
          /\ step'.emitted = <<>>
          /\ heartbeatTimeoutTimer' = -1
          /\ heartbeatTimer' = heartbeatTimer
          /\ heartbeatPeriod' = heartbeatPeriod]_vars

\* a pong has just answered a ping and the interval is still armed
C6_Witness ==
    /\ step.op = "onmessage" /\ HasPongShape(step.arg, options.pongMessage)
    /\ state = "OPEN" /\ heartbeatTimer >= 0 /\ heartbeatTimeoutTimer = -1

\* the observer's notifications <<new, old>> lead from state a to state b,
\* one for each change and none for a state set to itself
Chain(a, seq, b) ==
    IF seq = <<>> THEN a = b
    ELSE /\ seq[1][2] = a
         /\ seq[Len(seq)][1] = b
         /\ \A i \in 1..Len(seq) : seq[i][1] # seq[i][2]
         /\ \A i \in 1..(Len(seq) - 1) : seq[i + 1][2] = seq[i][1]

\* C8: the observer is notified exactly once for each change of the state,
\* with the new and the old state, never for a state set to itself; every
\* statusChange published has newState different from oldState.
C8_NotifyOncePerChange ==
    [][/\ Chain(state, step'.notified, state')
       /\ \A i \in Published(step', "statusChange") :
             step'.emitted[i].a # step'.emitted[i].b]_vars

\* the close event after close(): the state is set to the value it has, and
\* nobody is notified
C8_Witness ==
    step.op = "onclose" /\ ownerClosed /\ state = "CLOSED" /\ step.notified = <<>>

\* C9: while Open, an unanswered ping is never older than heartbeatTimeout:
\* by then its heartbeatTimeout has been published.
C9_TimeoutWithinDeadline ==
    (state = "OPEN" /\ pingAge >= 0) => pingAge <= options.heartbeatTimeout

\* C10: send() in state Closed or Closing returns false, publishes a
\* sendError, hands nothing to the transport and leaves queue and state.
C10_SendWhileClosedRejected ==
    [][(step'.op = "send" /\ state \in {"CLOSED", "CLOSING"}) =>
          /\ step'.ret = "false"
          /\ \E i \in Published(step', "error") : step'.emitted[i].a = "sendError"
          /\ step'.wire = <<>>
          /\ messageQueue' = messageQueue
          /\ state' = state]_vars

\* C7: a callback registered with once() is called at most one time,
\* however often its event is published.
C7_OnceAtMostOnce == \A i \in 1..Len(hits) : hits[i] <= 1

\* the handlers that report the failure of a connection
FailureOps == {"onclose", "onerror", "connectionTimeout", "heartbeatTimeout"}

\* C11: the k-th consecutive failure publishes reconnecting with attempt k
\* and limit L, the one after the L-th publishes reconnectFailed with
\* attempts L and limit L.  Each failure being the failure of a connection
\* attempt of its own, the attempt number published never exceeds the
\* number of attempts made since the context was reset.
C11_AttemptNumberFollowsFailures ==
    [][step'.op \in FailureOps =>
          /\ \A i \in Published(step', "reconnecting") :
                /\ step'.emitted[i].attempt <= attempts'
                /\ step'.emitted[i].limit = options.reconnectLimit
          /\ \A i \in Published(step', "reconnectFailed") :
                /\ step'.emitted[i].attempt = options.reconnectLimit
                /\ step'.emitted[i].limit = options.reconnectLimit]_vars

\* the changes of Session State the specification allows, <<old, new>>
AllowedTransitions ==
    { <<"CLOSED", "CONNECTING">>, <<"CONNECTING", "OPEN">>,
      <<"CONNECTING", "CLOSED">>, <<"CONNECTING", "CLOSING">>,
      <<"OPEN", "CLOSING">>, <<"RECONNECTING", "CLOSING">>,
      <<"CLOSING", "CLOSED">>, <<"OPEN", "CLOSED">>,
      <<"CLOSED", "RECONNECTING">>, <<"RECONNECTING", "CONNECTING">> }

\* C12: every change of Session State, as the observer is told of it, is
\* one of the allowed transitions.
C12_OnlyAllowedTransitions ==
    [][\A i \in 1..Len(step'.notified) :
          <<step'.notified[i][2], step'.notified[i][1]>> \in AllowedTransitions]_vars

\* C13: after destroy(), and until the owner's next call, the session is
\* Closed, the queue empty, no callback registered, no timer armed and no
\* transport connecting or open.
C13_DestroyedStaysClosed ==
    destroyed =>
        /\ state = "CLOSED"
        /\ messageQueue = <<>>
        /\ \A e \in EventNames : events[e] = <<>>
        /\ heartbeatTimer = -1 /\ heartbeatTimeoutTimer = -1
        /\ ~connectionTimeoutTimer
        /\ reconnectTimers = 0
        /\ ws \notin {"CONNECTING", "OPEN"}

\* a step in which updateOptions changes the url while the session is Open
UrlChangedWhileOpen ==
    /\ step'.op = "updateOptions" /\ step'.arg[1] = "url"
    /\ step'.arg[2] # options.url
    /\ state = "OPEN"

\* the superseded sockets that are neither connecting nor open: closing, or
\* closed with an event still to come
Closed(st) == st["CLOSING"] + st["ERRORED"] + st["ABORTED"] + st["FAILING"]

\* what C14 says of such a step: the old transport is not left connecting
\* or open (it is one more of the superseded sockets, closed), the reconnect
\* context is reset, and a new transport is connecting to the new url with
\* the session Connecting
UrlChangeReconnects ==
    /\ stale'["CONNECTING"] = stale["CONNECTING"]
    /\ stale'["OPEN"] = stale["OPEN"]
    /\ ws \in Alive => Closed(stale') = Closed(stale) + 1
    /\ reconnectCount' = 0 /\ currentBackoff' = 0
    /\ options'.url = step'.arg[2]
    /\ ws' = "CONNECTING"
    /\ state' = "CONNECTING"

\* C14 as stated: for every new url
C14_UrlChangeReconnects_AnyUrl ==
    [][UrlChangedWhileOpen => UrlChangeReconnects]_vars

\* C14, amended: for every new url that the WebSocket constructor accepts
C14_UrlChangeReconnects ==
    [][(UrlChangedWhileOpen /\ ~ConstructorThrows(step'.arg[2]))
          => UrlChangeReconnects]_vars

\* updateOptions has just replaced the url of an Open session by one the
\* constructor accepts: the session went from Open to Connecting
C14_Witness ==
    /\ step.op = "updateOptions" /\ step.arg[1] = "url"
    /\ ~ConstructorThrows(step.arg[2])
    /\ step.notified = << <<"CONNECTING", "OPEN">> >>
    /\ state = "CONNECTING" /\ ws = "CONNECTING" /\ stale["CLOSING"] > 0

\* the transports the engine created that are connecting or open
LiveTransports ==
    stale["CONNECTING"] + stale["OPEN"]
        + (IF ws \in {"CONNECTING", "OPEN"} THEN 1 ELSE 0)

\* C15: at no time are two transports of the engine connecting or open.
C15_OneLiveTransport == LiveTransports <= 1

\* C16: a heartbeat timer (interval or timeout) is armed only while the
\* session is Open.
C16_HeartbeatOnlyWhileOpen ==
    (heartbeatTimer # -1 \/ heartbeatTimeoutTimer # -1) => state = "OPEN"

\* C17: when close() returns, none of the connection-timeout, heartbeat
\* interval, heartbeat timeout and reconnect-delay timers is armed.
C17_CloseLeavesNoTimer ==
    [][step'.op = "close" =>
          /\ ~connectionTimeoutTimer'
          /\ heartbeatTimer' = -1 /\ heartbeatTimeoutTimer' = -1
          /\ reconnectTimers' = 0]_vars

\* C18: in one transport-open callback the queue is drained and the
\* heartbeat started before 'open' is published: at the publish the
\* outbound queue is empty and, when heartbeatInterval > 0, the heartbeat
\* interval timer is armed.
C18_OpenAfterDrainAndHeartbeat ==
    [][step'.op = "onopen" =>
          \A i \in Published(step', "open") :
              /\ step'.emitted[i].queued = 0
              /\ options.heartbeatInterval > 0 =>
                    step'.emitted[i].heartbeat]_vars

\* an open callback that found messages queued has sent them, started the
\* heartbeat and published 'open'
C18_Witness ==
    /\ step.op = "onopen" /\ Published(step, "open") # {}
    /\ \E i \in 1..Len(step.wire) : step.wire[i] \in UserMsgs
    /\ options.heartbeatInterval > 0 /\ heartbeatTimer # -1
    /\ messageQueue = <<>>

\* the reconnect counter before the last step: performReconnect adds one
\* when it publishes 'reconnecting'
CountBefore ==
    reconnectCount - (IF Published(step, "reconnecting") # {} THEN 1 ELSE 0)

\* the transport has just closed, or (on node, where no close event follows)
\* the handshake of the current transport has just failed, with no explicit
\* close, with autoReconnect enabled and with fewer attempts made than
\* reconnectLimit
FailedUnclosed ==
    /\ IF step.op = "onerror"
       THEN step.arg = "cur" /\ step.ret = "CONNECTING" /\ platform = "node"
       ELSE step.op = "onclose"
    /\ ~explicitClose /\ options.autoReconnect
    /\ CountBefore < options.reconnectLimit

\* C19: when the transport closes or fails to open without an explicit
\* close, with autoReconnect enabled and attemptCount < reconnectLimit, then
\* (timers firing fairly) a reconnect delay eventually ends and starts a new
\* connection attempt; and whenever the transport accepts an attempt the
\* session state is Open.
C19_FailureLeadsToAttempt ==
    /\ FailedUnclosed ~> step.op = "reconnectTimer"
    /\ [](step.op = "onopen" => state = "OPEN")

\* the same for an owner whose onClose callback returns normally
C19_WhenOnCloseReturns ==
    (FailedUnclosed /\ options.onClose # "throw") ~> step.op = "reconnectTimer"

\* C20: between two resets of the reconnect context reconnectFailed is
\* published at most once: a step publishes it at most once, and not at
\* all when it was already published since the last reset.
C20_ReconnectFailedOnce ==
    [][Cardinality(Published(step', "reconnectFailed"))
          + (IF failedOnce /\ ~ResetsContext(step'.op, step'.arg) THEN 1 ELSE 0)
            <= 1]_vars

\* C21: checkConnection() returns the session state the engine has when the
\* call returns.
C21_CheckConnectionReturnsCurrent ==
    [][step'.op = "checkConnection" => step'.ret = state']_vars

\* C22: a user callback that throws does not cut a transport callback
\* short: the open callback still publishes 'open', the error callback
\* 'error', the close callback 'close' and, when the close is unexpected
\* and autoReconnect is enabled, still runs the reconnection controller
\* (which publishes 'reconnecting' or 'reconnectFailed'); every state
\* change notified is still published as 'statusChange'.
C22_CallbackExceptionsIsolated ==
    [][/\ step'.op = "onopen" => Published(step', "open") # {}
       /\ step'.op = "onerror" => Published(step', "error") # {}
       /\ step'.op = "onclose" =>
             /\ Published(step', "close") # {}
             /\ (~explicitClose /\ options.autoReconnect) =>
                    Published(step', "reconnecting")
                       \cup Published(step', "reconnectFailed") # {}
       /\ Cardinality(Published(step', "statusChange"))
             = Len(step'.notified)]_vars

\* the step is a publish of event e
PublishOf(e) == InstallBus(EventBusEmit(CurBus, e, 0))

\* no callback registered for e publishes e again from inside the publish
NoRepublish(e) == \A i \in 1..Len(events[e]) : events[e][i].cb # "emit"

\* C23: a publish of an event calls the functions registered for it when
\* the publish starts, each once per registration and in registration
\* order, those after a callback that throws included.
C23_PublishCallsAllInOrder ==
    [][\A e \in EventNames :
          (PublishOf(e) /\ NoRepublish(e)) => invoked' = events[e]]_vars

\* a publish has called a callback that threw and then the one registered
\* after it
C23_Witness ==
    /\ Len(invoked) = 2
    /\ invoked[1].cb = "throw" /\ invoked[2].cb = "plain"

\* every key present in the template has an equal value in the object
MatchesTemplate(obj, pongMessage) ==
    \A k \in Keys :
        pongMessage.obj[k] # "undefined" => obj[k] = pongMessage.obj[k]

\* the keys of a payload once a string has been parsed as JSON
ParsedKeys(data) == IF data.kind \in {"object", "json"} THEN data.obj ELSE NoKeys

\* the pong rule applied to the keys obj of a payload
PongRule(obj, pongMessage) ==
    IF pongMessage.kind = "object" THEN MatchesTemplate(obj, pongMessage)
    ELSE obj["type"] = "pong"

\* the payload the message callback hands to isPongMessage
Handed(st) == Decode(options.autoParseMessage, st.arg)

\* C25: for every payload and template isPongMessage returns, and it
\* returns true exactly when the payload satisfies the pong rule.  The
\* payload is read here as the code reads it, a string as the JSON it
\* holds; the statement read on the string as it is handed over asks more.
C25_PongRuleForAllPayloads ==
    [][step'.op = "onmessage" =>
          /\ ~IsPongThrows(Handed(step'), options.pongMessage)
          /\ IsPongMessage(Handed(step'), options.pongMessage)
                <=> PongRule(ParsedKeys(Handed(step')), options.pongMessage)]_vars

\* the i-th publish of the step is event e with payload data
PublishedAt(st, i, e, data) ==
    /\ i <= Len(st.emitted)
    /\ st.emitted[i].ev = e
    /\ st.emitted[i].data = data

\* C24: an inbound payload that is no pong publishes 'message' once with
\* the decoded payload; an object with a type field t then publishes t
\* once with the same payload; nothing else is published.
C24_MessageThenType ==
    [][(step'.op = "onmessage"
          /\ ~PongRule(ParsedKeys(Handed(step')), options.pongMessage)) =>
          LET data == Handed(step')
          IN /\ PublishedAt(step', 1, "message", data)
             /\ IF data.kind = "object" /\ data.obj["type"] # "undefined"
                THEN /\ Len(step'.emitted) = 2
                     /\ PublishedAt(step', 2, data.obj["type"], data)
                     /\ Cardinality(Published(step', "message")) = 1
                ELSE Len(step'.emitted) = 1]_vars

\* C26: updateOptions with a positive heartbeatInterval, called while Open,
\* returns with the interval timer armed with the new interval.
C26_IntervalChangeRestartsHeartbeat ==
    [][(/\ step'.op = "updateOptions"
        /\ step'.arg[1] = "heartbeatInterval"
        /\ step'.arg[2] > 0
        /\ state = "OPEN") =>
          /\ heartbeatTimer' # -1
          /\ heartbeatPeriod' = step'.arg[2]]_vars

\* C27: at most one reconnect-delay timer is pending at any time, and none
\* while the session is Open.
C27_OneReconnectTimer ==
    /\ reconnectTimers <= 1
    /\ state = "OPEN" => reconnectTimers = 0

\* the events of a socket that change the engine
SocketEvents == {"onopen", "onclose", "onerror"}

\* C28: an event delivered by a superseded transport (a socket that a later
\* connect() has replaced by the current one) neither changes the session
\* state nor schedules a reconnect, so that the state goes on following the
\* current transport.
C28_SupersededEventsIgnored ==
    [][(/\ step'.op \in SocketEvents /\ step'.arg = "stale"
        /\ ws \in {"CONNECTING", "OPEN"}) =>
          /\ state' = state
          /\ reconnectTimers' = reconnectTimers
          /\ reconnectCount' = reconnectCount]_vars

\* C29: while the current transport is connecting and connectionTimeout is
\* positive, the connection-timeout timer of that attempt is armed.
C29_ConnectingHasTimeoutArmed ==
    (ws = "CONNECTING" /\ options.connectionTimeout > 0) => connectionTimeoutTimer

\* C30: in every reachable state the attempt count, which
\* currentReconnectAttempt reports, lies between 0 and the configured
\* reconnectLimit.
C30_AttemptCountWithinLimit ==
    /\ 0 <= reconnectCount
    /\ reconnectCount <= options.reconnectLimit

====
